---- MODULE Spec2Model ----
(***************************************************************************)
(* fundingme_dapp: an Anchor program with three instructions,              *)
(* create_project, donate and close_project, over one ProjectAccount per   *)
(* owner (a PDA derived from seeds ["project", owner]).                     *)
(*                                                                         *)
(* A Solana transaction is atomic: an instruction that returns an error    *)
(* (or panics) has every account change it made discarded by the runtime.  *)
(* Lamport amounts and the u64 width are scaled down; the total supply     *)
(* stays below the u64 modulus, as it does on chain.                       *)
(***************************************************************************)
EXTENDS Integers, Sequences, FiniteSets, TLC

\* ---- bounds of the model ----
InitLamports == 2
MaxAmount == 3
MaxTarget == 2

\* ---- program constants (scaled) ----
\* width of the u64 fields financial_target and balance, scaled to 6 bits
U64Bits == 6
U64Modulus == 2 ^ U64Bits
\* lamports the payer deposits for the rent exemption of space = 5000
Rent == 1

\* the identities that sign requests; the PDA of seeds ["project", u] is
\* addressed by u as well
Users == {1, 2}
Names == {"alpha", "beta"}

\* the variants of status::ProjectStatus
ProjectStatus == {"Active", "TargetReached", "Success", "Failed"}

\* the bump of the PDA of seeds ["project", owner]: a function of the owner
Bump(o) == 255 - o

\* an address at which no ProjectAccount has been initialised
NoAccount ==
  [disc |-> "none", owner |-> 0, name |-> "", financial_target |-> 0,
   balance |-> 0, status |-> "Active", bump |-> 0]

\* the values of an initialised ProjectAccount at the PDA of owner o
ProjectAccount(o) ==
  [disc : {"ProjectAccount"}, owner : {o}, name : Names,
   financial_target : 0 .. (U64Modulus - 1), balance : 0 .. (U64Modulus - 1),
   status : ProjectStatus, bump : {Bump(o)}]

VARIABLES
  project,   \* project[o]: the account at the PDA of owner o
  wallet,    \* wallet[u]: lamports of user u
  custody,   \* custody[o]: lamports of the account at the PDA of owner o
  accepted,  \* accepted[o]: sum of the amounts of the donates that returned Ok
  resolved,  \* the projects on which a close_project has returned Ok
  last       \* the last request and its response

vars == <<project, wallet, custody, accepted, resolved, last>>

NoRequest ==
  [op |-> "none", user |-> 0, proj |-> 0, amount |-> 0, ret |-> "none",
   xfer |-> "none", pre |-> NoAccount, resolved |-> FALSE,
   name |-> "", target |-> 0]

Response(op, u, p, amount, ret, xfer) ==
  [op |-> op, user |-> u, proj |-> p, amount |-> amount, ret |-> ret,
   xfer |-> xfer, pre |-> project[p], resolved |-> p \in resolved,
   name |-> "", target |-> 0]

\* the response to create_project, with the name and the target passed in
CreateResponse(u, name, financial_target, ret, xfer) ==
  [Response("create_project", u, u, 0, ret, xfer)
     EXCEPT !.name = name, !.target = financial_target]

Init ==
  /\ project = [o \in Users |-> NoAccount]
  /\ wallet = [u \in Users |-> InitLamports]
  /\ custody = [o \in Users |-> 0]
  /\ accepted = [o \in Users |-> 0]
  /\ resolved = {}
  /\ last = NoRequest

\* ---- create_project ----
\* The init constraint creates the account at the PDA of the signer, paid by
\* the signer; it fails when the account exists or the payer cannot pay.
\* a create_project under init_if_needed: an existing account is written again
create_project_if_needed(u, name, financial_target) ==
  IF project[u].disc = "none" /\ wallet[u] < Rent
  THEN /\ last' = CreateResponse(u, name, financial_target, "InsufficientFunds",
                               "rejected")
       /\ UNCHANGED <<project, wallet, custody, accepted, resolved>>
  ELSE LET paid == IF project[u].disc = "none" THEN Rent ELSE 0 IN
       /\ project' = [project EXCEPT ![u] =
                        [disc |-> "ProjectAccount", owner |-> u, name |-> name,
                         financial_target |-> financial_target, balance |-> 0,
                         status |-> "Active", bump |-> Bump(u)]]
       /\ wallet' = [wallet EXCEPT ![u] = @ - paid]
       /\ custody' = [custody EXCEPT ![u] = @ + paid]
       /\ last' = CreateResponse(u, name, financial_target, "Ok", "ok")
       /\ UNCHANGED <<accepted, resolved>>

\* a create_project that leaves financial_target as the fresh account has it
create_project_no_target(u, name, financial_target) ==
  IF project[u].disc # "none"
  THEN /\ last' = CreateResponse(u, name, financial_target, "AccountInUse", "none")
       /\ UNCHANGED <<project, wallet, custody, accepted, resolved>>
  ELSE IF wallet[u] < Rent
  THEN /\ last' = CreateResponse(u, name, financial_target, "InsufficientFunds",
                               "rejected")
       /\ UNCHANGED <<project, wallet, custody, accepted, resolved>>
  ELSE /\ project' = [project EXCEPT ![u] =
                        [disc |-> "ProjectAccount", owner |-> u, name |-> name,
                         financial_target |-> 0, balance |-> 0,
                         status |-> "Active", bump |-> Bump(u)]]
       /\ wallet' = [wallet EXCEPT ![u] = @ - Rent]
       /\ custody' = [custody EXCEPT ![u] = @ + Rent]
       /\ last' = CreateResponse(u, name, financial_target, "Ok", "ok")
       /\ UNCHANGED <<accepted, resolved>>

create_project(u, name, financial_target) ==
  IF project[u].disc # "none"
  THEN /\ last' = CreateResponse(u, name, financial_target, "AccountInUse", "none")
       /\ UNCHANGED <<project, wallet, custody, accepted, resolved>>
  ELSE IF wallet[u] < Rent
  THEN /\ last' = CreateResponse(u, name, financial_target, "InsufficientFunds",
                               "rejected")
       /\ UNCHANGED <<project, wallet, custody, accepted, resolved>>
  ELSE /\ project' = [project EXCEPT ![u] =
                        [disc |-> "ProjectAccount", owner |-> u, name |-> name,
                         financial_target |-> financial_target, balance |-> 0,
                         status |-> "Active", bump |-> Bump(u)]]
       /\ wallet' = [wallet EXCEPT ![u] = @ - Rent]
       /\ custody' = [custody EXCEPT ![u] = @ + Rent]
       /\ last' = CreateResponse(u, name, financial_target, "Ok", "ok")
       /\ UNCHANGED <<accepted, resolved>>

\* ---- donate ----
\* system_instruction::transfer moves amount lamports from the signer to the
\* project account; the System Program rejects it when the signer holds less.
transfer_ok(from_lamports, amount) == amount <= from_lamports

\* a donate that adds the amount twice
credit_twice(balance, amount) == (balance + amount + amount) % U64Modulus

\* a donate that assigns the amount instead of adding it
credit_assign(balance, amount) == amount % U64Modulus

\* project.balance += amount on a u64
credit(balance, amount) == (balance + amount) % U64Modulus

\* the outcomes of += when the sum leaves the u64 range: the build either
\* checks overflow (panic, the transaction fails) or wraps
overflow_outcomes(balance, amount) ==
  IF balance + amount >= U64Modulus THEN {"panic", "wrap"} ELSE {"fits"}

\* a donate that marks the project TargetReached once the balance meets the
\* target
donate_with_transition(u, p, amount) ==
  IF project[p].disc # "ProjectAccount"
  THEN /\ last' = Response("donate", u, p, amount, "AccountNotInitialized", "none")
       /\ UNCHANGED <<project, wallet, custody, accepted, resolved>>
  ELSE IF ~transfer_ok(wallet[u], amount)
  THEN /\ last' = Response("donate", u, p, amount, "TransferFailed", "rejected")
       /\ UNCHANGED <<project, wallet, custody, accepted, resolved>>
  ELSE /\ wallet' = [wallet EXCEPT ![u] = @ - amount]
       /\ custody' = [custody EXCEPT ![p] = @ + amount]
       /\ project' = [project EXCEPT
                        ![p].balance = credit(@, amount),
                        ![p].status =
                          IF credit(project[p].balance, amount)
                               >= project[p].financial_target
                          THEN "TargetReached" ELSE @]
       /\ accepted' = [accepted EXCEPT ![p] = @ + amount]
       /\ last' = Response("donate", u, p, amount, "Ok", "ok")
       /\ UNCHANGED resolved

\* a donate that credits the project of the donor, not the project it names
donate_own_project(u, p, amount) ==
  IF project[p].disc # "ProjectAccount"
  THEN /\ last' = Response("donate", u, p, amount, "AccountNotInitialized", "none")
       /\ UNCHANGED <<project, wallet, custody, accepted, resolved>>
  ELSE IF ~transfer_ok(wallet[u], amount)
  THEN /\ last' = Response("donate", u, p, amount, "TransferFailed", "rejected")
       /\ UNCHANGED <<project, wallet, custody, accepted, resolved>>
  ELSE /\ wallet' = [wallet EXCEPT ![u] = @ - amount]
       /\ custody' = [custody EXCEPT ![p] = @ + amount]
       /\ project' = [project EXCEPT ![u].balance = credit(@, amount)]
       /\ accepted' = [accepted EXCEPT ![p] = @ + amount]
       /\ last' = Response("donate", u, p, amount, "Ok", "ok")
       /\ UNCHANGED resolved

\* a donate that adds the amount to financial_target instead of balance
donate_wrong_field(u, p, amount) ==
  IF project[p].disc # "ProjectAccount"
  THEN /\ last' = Response("donate", u, p, amount, "AccountNotInitialized", "none")
       /\ UNCHANGED <<project, wallet, custody, accepted, resolved>>
  ELSE IF ~transfer_ok(wallet[u], amount)
  THEN /\ last' = Response("donate", u, p, amount, "TransferFailed", "rejected")
       /\ UNCHANGED <<project, wallet, custody, accepted, resolved>>
  ELSE /\ wallet' = [wallet EXCEPT ![u] = @ - amount]
       /\ custody' = [custody EXCEPT ![p] = @ + amount]
       /\ project' = [project EXCEPT ![p].financial_target = credit(@, amount)]
       /\ accepted' = [accepted EXCEPT ![p] = @ + amount]
       /\ last' = Response("donate", u, p, amount, "Ok", "ok")
       /\ UNCHANGED resolved

\* a donate that drops the result of invoke instead of returning it with ?
donate_unchecked(u, p, amount) ==
  IF project[p].disc # "ProjectAccount"
  THEN /\ last' = Response("donate", u, p, amount, "AccountNotInitialized", "none")
       /\ UNCHANGED <<project, wallet, custody, accepted, resolved>>
  ELSE LET moved == IF transfer_ok(wallet[u], amount) THEN amount ELSE 0 IN
       /\ wallet' = [wallet EXCEPT ![u] = @ - moved]
       /\ custody' = [custody EXCEPT ![p] = @ + moved]
       /\ project' = [project EXCEPT ![p].balance = credit(@, amount)]
       /\ accepted' = [accepted EXCEPT ![p] = @ + amount]
       /\ last' = Response("donate", u, p, amount, "Ok",
                            IF moved = amount THEN "ok" ELSE "rejected")
       /\ UNCHANGED resolved

donate(u, p, amount) ==
  IF project[p].disc # "ProjectAccount"
  THEN /\ last' = Response("donate", u, p, amount, "AccountNotInitialized", "none")
       /\ UNCHANGED <<project, wallet, custody, accepted, resolved>>
  ELSE IF ~transfer_ok(wallet[u], amount)
  THEN /\ last' = Response("donate", u, p, amount, "TransferFailed", "rejected")
       /\ UNCHANGED <<project, wallet, custody, accepted, resolved>>
  ELSE \E outcome \in overflow_outcomes(project[p].balance, amount) :
         IF outcome = "panic"
         THEN /\ last' = Response("donate", u, p, amount, "Panic", "ok")
              /\ UNCHANGED <<project, wallet, custody, accepted, resolved>>
         ELSE /\ wallet' = [wallet EXCEPT ![u] = @ - amount]
              /\ custody' = [custody EXCEPT ![p] = @ + amount]
              /\ project' = [project EXCEPT ![p].balance = credit(@, amount)]
              /\ accepted' = [accepted EXCEPT ![p] = @ + amount]
              /\ last' = Response("donate", u, p, amount, "Ok", "ok")
              /\ UNCHANGED resolved

\* ---- close_project ----
\* a dispatch whose last branch returns Ok as the other two do
close_project_ret_any(status) == "Ok"

\* the result of the dispatch on the status; both Ok branches are empty
close_project_ret(status) ==
  IF status = "Active" THEN "Ok"
  ELSE IF status = "TargetReached" THEN "Ok"
  ELSE "InvalidProjectStatus"

\* a close_project whose TargetReached branch pays the owner, whoever calls
close_project_payout(u, p) ==
  IF project[p].disc # "ProjectAccount"
  THEN /\ last' = Response("close_project", u, p, 0, "AccountNotInitialized", "none")
       /\ UNCHANGED <<project, wallet, custody, accepted, resolved>>
  ELSE IF project[p].status = "TargetReached"
  THEN /\ resolved' = resolved \cup {p}
       /\ project' = [project EXCEPT ![p].status = "Success", ![p].balance = 0]
       /\ custody' = [custody EXCEPT ![p] = @ - project[p].balance]
       /\ wallet' = [wallet EXCEPT ![project[p].owner] = @ + project[p].balance]
       /\ last' = Response("close_project", u, p, 0, "Ok", "ok")
       /\ UNCHANGED accepted
  ELSE IF close_project_ret(project[p].status) = "Ok"
  THEN /\ resolved' = resolved \cup {p}
       /\ last' = Response("close_project", u, p, 0, "Ok", "none")
       /\ UNCHANGED <<project, wallet, custody, accepted>>
  ELSE /\ last' = Response("close_project", u, p, 0, "InvalidProjectStatus", "none")
       /\ UNCHANGED <<project, wallet, custody, accepted, resolved>>

\* a close_project whose Active branch marks the project Success
close_project_wrong_edge(u, p) ==
  IF project[p].disc # "ProjectAccount"
  THEN /\ last' = Response("close_project", u, p, 0, "AccountNotInitialized", "none")
       /\ UNCHANGED <<project, wallet, custody, accepted, resolved>>
  ELSE IF close_project_ret(project[p].status) = "Ok"
  THEN /\ resolved' = resolved \cup {p}
       /\ project' = [project EXCEPT ![p].status =
                        IF @ = "Active" THEN "Success" ELSE @]
       /\ last' = Response("close_project", u, p, 0, "Ok", "none")
       /\ UNCHANGED <<wallet, custody, accepted>>
  ELSE /\ last' = Response("close_project", u, p, 0, "InvalidProjectStatus", "none")
       /\ UNCHANGED <<project, wallet, custody, accepted, resolved>>

close_project(u, p) ==
  IF project[p].disc # "ProjectAccount"
  THEN /\ last' = Response("close_project", u, p, 0, "AccountNotInitialized", "none")
       /\ UNCHANGED <<project, wallet, custody, accepted, resolved>>
  ELSE IF close_project_ret(project[p].status) = "Ok"
  THEN /\ resolved' = resolved \cup {p}
       /\ last' = Response("close_project", u, p, 0, "Ok", "none")
       /\ UNCHANGED <<project, wallet, custody, accepted>>
  ELSE /\ last' = Response("close_project", u, p, 0, "InvalidProjectStatus", "none")
       /\ UNCHANGED <<project, wallet, custody, accepted, resolved>>

\* the amounts a donate is called with: the small ones and the largest u64
Amounts == (0 .. MaxAmount) \cup {U64Modulus - 1}

Next ==
  \/ \E u \in Users, name \in Names, financial_target \in 0 .. MaxTarget :
       create_project(u, name, financial_target)
  \/ \E u \in Users, p \in Users, amount \in Amounts : donate(u, p, amount)
  \/ \E u \in Users, p \in Users : close_project(u, p)

Spec == Init /\ [][Next]_vars

TypeOK ==
  /\ \A o \in Users : project[o] = NoAccount \/ project[o] \in ProjectAccount(o)
  /\ wallet \in [Users -> 0 .. (Cardinality(Users) * InitLamports)]
  /\ custody \in [Users -> 0 .. (Cardinality(Users) * InitLamports)]
  /\ resolved \subseteq Users

\* ---- the handlers applied to every value of the account type ----
\* donate and close_project take the project account as an input.
\* InitAnyAccount draws it from the values of ProjectAccount, every status
\* included, with the custody lamports and the history that match its balance.
AnyAccount(o) ==
  {a \in ProjectAccount(o) :
     /\ a.name = "alpha"
     /\ a.financial_target = MaxTarget
     /\ a.balance \in 0 .. 1}

InitAnyAccount ==
  /\ project \in [Users -> UNION {AnyAccount(o) : o \in Users} \cup {NoAccount}]
  /\ \A o \in Users : project[o] = NoAccount \/ project[o] \in AnyAccount(o)
  /\ wallet = [u \in Users |-> InitLamports]
  /\ custody = [o \in Users |->
                  IF project[o] = NoAccount THEN 0 ELSE Rent + project[o].balance]
  /\ accepted = [o \in Users |-> project[o].balance]
  /\ resolved = {}
  /\ last = NoRequest

\* the instructions over the RunningProject accounts
NextRunning ==
  \/ \E u \in Users, p \in Users, amount \in Amounts : donate(u, p, amount)
  \/ \E u \in Users, p \in Users : close_project(u, p)

SpecAnyAccount == InitAnyAccount /\ [][NextRunning]_vars

\* ---- properties ----
Initialised(p) == project[p].disc = "ProjectAccount"

\* C1: before any close_project has succeeded on a project, its balance is
\* the sum of the amounts of the donates that returned Ok on it.
C1_BalanceIsSumOfAccepted ==
  \A p \in Users : (Initialised(p) /\ p \notin resolved) => project[p].balance = accepted[p]

\* two donates of different donors have been accepted, the second on top of
\* a positive balance
C1_Witness ==
  /\ last.op = "donate" /\ last.ret = "Ok" /\ last.amount > 0
  /\ last.pre.balance > 0 /\ last.proj \notin resolved
  /\ project[last.proj].balance = 2

\* C2: a donate that returns Ok and leaves balance >= financial_target leaves
\* the status TargetReached.
C2_TargetReachedAfterDonate ==
  (last.op = "donate" /\ last.ret = "Ok"
     /\ project[last.proj].financial_target > 0
     /\ project[last.proj].balance >= project[last.proj].financial_target)
  => project[last.proj].status = "TargetReached"

\* C3: a donate that arrives after the project has been resolved (a
\* close_project returned Ok) fails with InvalidProjectStatus and leaves the
\* project account as it was.
C3_DonateAfterResolveRejected ==
  (last.op = "donate" /\ last.resolved)
  => (last.ret = "InvalidProjectStatus" /\ project[last.proj] = last.pre)

\* C4: a close_project that returns Ok on an Active project leaves the status
\* Failed, the balance 0 and only the rent in custody.
C4_CloseActiveRefunds ==
  (last.op = "close_project" /\ last.ret = "Ok" /\ last.pre.status = "Active")
  => /\ project[last.proj].status = "Failed"
     /\ project[last.proj].balance = 0
     /\ custody[last.proj] = Rent

\* C5: a close_project that returns Ok on a project whose donations reached
\* the target leaves the status Success, the balance 0 and only the rent in
\* custody.
C5_CloseTargetReachedPaysOwner ==
  (last.op = "close_project" /\ last.ret = "Ok"
     /\ last.pre.financial_target > 0
     /\ last.pre.balance >= last.pre.financial_target)
  => /\ project[last.proj].status = "Success"
     /\ project[last.proj].balance = 0
     /\ custody[last.proj] = Rent

\* C6: close_project on a project whose status is Success or Failed returns
\* InvalidProjectStatus and leaves the project account as it was.
C6_CloseTerminalRejected ==
  (last.op = "close_project" /\ last.pre.disc = "ProjectAccount"
     /\ last.pre.status \in {"Success", "Failed"})
  => (last.ret = "InvalidProjectStatus" /\ project[last.proj] = last.pre)

C6_Witness ==
  /\ last.op = "close_project" /\ last.pre.status = "Failed"
  /\ last.pre.balance > 0 /\ last.ret = "InvalidProjectStatus"

\* C7: a close_project on a project on which a close_project has returned Ok
\* fails with InvalidProjectStatus.
C7_ResolveOnce ==
  (last.op = "close_project" /\ last.resolved) => last.ret = "InvalidProjectStatus"

\* C8: the status of a project changes only along Active -> TargetReached,
\* TargetReached -> Success and Active -> Failed.
LegalEdges ==
  {<<"Active", "TargetReached">>, <<"TargetReached", "Success">>,
   <<"Active", "Failed">>}

C8_LegalEdges ==
  [][\A p \in Users :
       Initialised(p) =>
         \/ project'[p].status = project[p].status
         \/ <<project[p].status, project'[p].status>> \in LegalEdges]_vars

\* a project that took a donate reaching its target and then a close_project
C8_Witness ==
  \E p \in Users :
    /\ Initialised(p) /\ p \in resolved
    /\ project[p].financial_target > 0
    /\ project[p].balance >= project[p].financial_target

\* C9: a request that returns an error, or whose value transfer is rejected,
\* leaves every project account and every lamport where it was.
C9_FailureIsAtomic ==
  [][(last'.ret # "Ok" \/ last'.xfer = "rejected")
       => (project' = project /\ wallet' = wallet /\ custody' = custody)]_vars

\* a donate on a funded project was refused by the System Program
C9_Witness ==
  /\ last.op = "donate" /\ last.ret = "TransferFailed" /\ last.xfer = "rejected"
  /\ last.pre.balance > 0

\* C10: a donate with amount = 0 never returns Ok.
C10_ZeroDonateRejected ==
  (last.op = "donate" /\ last.amount = 0)
  => (last.ret # "Ok" /\ project[last.proj] = last.pre)

\* C11: a create_project that returns Ok leaves a project with balance 0 and
\* status Active, owned by the caller, with the name and the target passed in.
C11_CreateYieldsFreshProject ==
  (last.op = "create_project" /\ last.ret = "Ok")
  => /\ Initialised(last.proj)
     /\ project[last.proj].balance = 0
     /\ project[last.proj].status = "Active"
     /\ project[last.proj].owner = last.user
     /\ project[last.proj].name = last.name
     /\ project[last.proj].financial_target = last.target

\* the second user created a project named beta with the largest target
C11_Witness ==
  /\ last.op = "create_project" /\ last.ret = "Ok" /\ last.user = 2
  /\ last.name = "beta" /\ last.target = MaxTarget
  /\ Initialised(1)

\* C12: a create_project with financial_target = 0 fails with InvalidTarget
\* and creates no project, so every project has financial_target > 0.
C12_ZeroTargetRejected ==
  /\ (last.op = "create_project" /\ last.target = 0)
       => (last.ret = "InvalidTarget" /\ project[last.proj] = last.pre)
  /\ \A p \in Users : Initialised(p) => project[p].financial_target > 0

\* C13: no two project records have the same owner, and a create_project by
\* an owner who has a project fails with the account-in-use error and leaves
\* that project as it was.
C13_OneProjectPerOwner ==
  /\ \A p, q \in Users :
       (Initialised(p) /\ Initialised(q) /\ project[p].owner = project[q].owner)
       => p = q
  /\ (last.op = "create_project" /\ last.pre.disc = "ProjectAccount")
       => (last.ret = "AccountInUse" /\ project[last.proj] = last.pre)

\* an owner whose project holds donations asked for a project of another
\* name and target
C13_Witness ==
  /\ last.op = "create_project" /\ last.ret = "AccountInUse"
  /\ last.pre.balance > 0 /\ last.pre.status = "Active"
  /\ last.name # last.pre.name /\ last.target # last.pre.financial_target

\* C14: a close_project on a TargetReached project by a caller other than its
\* owner neither makes the status Success nor takes the donations out of
\* custody, and a close_project on an Active project returns Ok whoever calls.
C14_OnlyOwnerPayout ==
  (last.op = "close_project" /\ last.pre.disc = "ProjectAccount")
  => /\ (last.pre.status = "TargetReached" /\ last.user # last.pre.owner)
        => /\ project[last.proj].status # "Success"
           /\ custody[last.proj] = Rent + last.pre.balance
     /\ last.pre.status = "Active" => last.ret = "Ok"

\* a caller who is not the owner closed a TargetReached project that holds
\* donations
C14_Witness ==
  /\ last.op = "close_project" /\ last.pre.disc = "ProjectAccount"
  /\ last.pre.status = "TargetReached" /\ last.user # last.pre.owner
  /\ last.pre.balance > 0

\* C15: a donate whose amount would take balance + amount out of the u64
\* range fails with ArithmeticOverflow and leaves the project as it was.
C15_OverflowRejected ==
  (last.op = "donate" /\ last.pre.disc = "ProjectAccount"
     /\ last.pre.balance + last.amount >= U64Modulus)
  => (last.ret = "ArithmeticOverflow" /\ project[last.proj] = last.pre)

\* C16: a close_project that returns Ok on an Active project that holds
\* donations, first call or retry, ends with status Failed, balance 0 and the
\* donations out of custody.
C16_RefundCompletes ==
  (last.op = "close_project" /\ last.ret = "Ok"
     /\ last.pre.status = "Active" /\ last.pre.balance > 0)
  => /\ project[last.proj].status = "Failed"
     /\ project[last.proj].balance = 0
     /\ custody[last.proj] = Rent

\* C17: no step changes the owner, the name or the financial_target of an
\* existing project.
C17_IdentityFieldsFrozen ==
  [][\A p \in Users :
       Initialised(p) =>
         /\ project'[p].owner = project[p].owner
         /\ project'[p].name = project[p].name
         /\ project'[p].financial_target = project[p].financial_target]_vars

\* a project that took a donate and a close_project, then refused a donate
C17_Witness ==
  /\ last.op = "donate" /\ last.ret = "TransferFailed"
  /\ last.resolved /\ last.pre.balance > 0
  /\ project[last.proj].name = "beta"
  /\ project[last.proj].financial_target = MaxTarget

\* C18: donate leaves the status as it was, and no project ever has status
\* TargetReached, whatever its balance.
C18_TargetReachedUnreachable ==
  /\ \A p \in Users : Initialised(p) => project[p].status # "TargetReached"
  /\ (last.op = "donate" /\ last.pre.disc = "ProjectAccount")
       => project[last.proj].status = last.pre.status

\* a donate took the balance from below the target to the target, and a
\* close_project has returned Ok on that project
C18_Witness ==
  /\ last.op = "donate" /\ last.ret = "Ok"
  /\ last.pre.balance < last.pre.financial_target
  /\ project[last.proj].balance >= project[last.proj].financial_target
  /\ last.resolved

\* the sum of f over the set S
RECURSIVE SumOver(_, _)
SumOver(f, S) ==
  IF S = {} THEN 0
  ELSE LET x == CHOOSE y \in S : TRUE IN f[x] + SumOver(f, S \ {x})

\* C19: the lamports a project account holds above its rent equal its
\* recorded balance, and the lamports of all wallets and accounts together
\* stay what they were at the start.
C19_FundsConserved ==
  /\ \A p \in Users :
       IF Initialised(p) THEN custody[p] = Rent + project[p].balance
       ELSE custody[p] = 0
  /\ SumOver(wallet, Users) + SumOver(custody, Users)
       = Cardinality(Users) * InitLamports

\* both projects hold donations and a donate has just been accepted
C19_Witness ==
  /\ \A p \in Users : Initialised(p) /\ project[p].balance > 0
  /\ last.op = "donate" /\ last.ret = "Ok" /\ last.amount > 0

\* C20: a request that targets one project leaves every other project
\* account as it was.
C20_ProjectsIndependent ==
  [][\A q \in Users : q # last'.proj => project'[q] = project[q]]_vars

\* a donor who owns a funded project gave to the other project
C20_Witness ==
  /\ last.op = "donate" /\ last.ret = "Ok" /\ last.amount > 0
  /\ last.user # last.proj
  /\ Initialised(last.user) /\ project[last.user].balance > 0
====
